---- MODULE Spec2Model ----
(***************************************************************************)
(* A model of the A* search of src/AStar/AStar.py: getPath, the            *)
(* MSTHeuristic and djikstraHeuristic heuristics and the AStar main loop,  *)
(* run on small weighted undirected graphs.                                *)
(*                                                                         *)
(* A vertex is its igraph index (1..4 here), its "name" attribute is the   *)
(* string at that index of names.  A graph is a function from unordered    *)
(* vertex pairs {u, v} (its edges) to their "weight" attribute.  Weights   *)
(* and heuristic values are integers; float('inf') is the number Inf,      *)
(* larger than every finite score the bounds allow.                        *)
(***************************************************************************)
EXTENDS Integers, Sequences, FiniteSets, TLC

\* Largest edge weight of the enumerated graphs.
MaxW == 1

\* Largest value returned by the unconstrained ("any") and "consistent" heuristics.
MaxH == 1

\* float('inf'), the initial gScore and fScore of every vertex.
Inf == 1000000

\* graph.vs["name"]: the unique name of each vertex, by vertex index.
names == <<"A", "B", "C", "D">>

\* graph.vs: the vertices of the graph.
Vertices == DOMAIN names

\* The identifiers a caller may pass as start_vertex and end_vertex; "Z" names
\* no vertex.
NameInputs == {names[v] : v \in Vertices} \cup {"Z"}

\* The unordered vertex pairs that can carry an edge (no self-loops, no
\* parallel edges).
Pairs == {{u, v} : u, v \in Vertices} \ {{v} : v \in Vertices}

\* The pairs an enumerated graph may join: the sides of the square A-B-C-D and
\* its diagonal A-C.
EdgePairs == Pairs \ {{2, 4}}

\* The 4-cycle A-B-C-D-A with AB = 1, BC = 2, CD = 1, DA = 5.
Cycle4 == ({1, 2} :> 1) @@ ({2, 3} :> 2) @@ ({3, 4} :> 1) @@ ({1, 4} :> 5)

\* The graphs searched: every graph on the four vertices with edges among
\* EdgePairs and weights 0..MaxW, and the 4-cycle.
Graphs == UNION {[E -> 0 .. MaxW] : E \in SUBSET EdgePairs} \cup {Cycle4}

-----------------------------------------------------------------------------
(* Sequences and the igraph queries AStar makes.                           *)

Min(S) == CHOOSE x \in S : \A y \in S : x <= y

Range(s) == {s[i] : i \in DOMAIN s}

\* graph.vs.find(name=n) finds a vertex, or raises ValueError.
HasVertex(n) == \E v \in Vertices : names[v] = n

Find(n) == CHOOSE v \in Vertices : names[v] = n

\* graph.neighbors(v): the adjacent vertices, in increasing vertex index.
RECURSIVE SortedSeq(_)
SortedSeq(S) == IF S = {} THEN <<>> ELSE <<Min(S)>> \o SortedSeq(S \ {Min(S)})

\* Mutant: only the neighbours of a higher index, as if edges were directed.
neighbors_successorsOnly(graph, v) ==
    SortedSeq({u \in Vertices : {u, v} \in DOMAIN graph /\ u > v})

neighbors(graph, v) == SortedSeq({u \in Vertices : {u, v} \in DOMAIN graph})

\* Mutant: every edge counts 1, the weight attribute is not read.
weight_unit(graph, u, v) == 1

\* graph.es[graph.get_eid(u, v)]["weight"]
weight(graph, u, v) == graph[{u, v}]

\* list.remove(x): drops the first occurrence of x.
RECURSIVE Remove(_, _)
Remove(s, x) ==
    IF s = <<>> THEN <<>>
    ELSE IF Head(s) = x THEN Tail(s)
    ELSE <<Head(s)>> \o Remove(Tail(s), x)

\* g.delete_edges(edges) on the deep copy g of graph: edges are name pairs.
delete_edges(graph, edges) ==
    LET gone == {{Find(edges[i][1]), Find(edges[i][2])} : i \in DOMAIN edges}
    IN  [e \in DOMAIN graph \ gone |-> graph[e]]

\* The shortest-path distance from u to v in graph (Inf: v is unreachable): the
\* least weight of a simple path, which is the least weight of any path when no
\* weight is negative.
RECURSIVE SimplePathDistance(_, _, _, _)
SimplePathDistance(graph, u, v, seen) ==
    IF u = v THEN 0
    ELSE Min({Inf} \cup
             {LET d == SimplePathDistance(graph, x, v, seen \cup {x})
              IN  IF d = Inf THEN Inf ELSE graph[{u, x}] + d :
                 x \in {y \in Vertices \ seen : {u, y} \in DOMAIN graph}})

Distance(graph, u, v) == SimplePathDistance(graph, u, v, {u})

\* Total weight of a minimum spanning forest of graph (Kruskal: comp maps each
\* vertex to its component).
RECURSIVE Kruskal(_, _, _)
Kruskal(graph, left, comp) ==
    IF left = {} THEN 0
    ELSE LET e == CHOOSE x \in left : \A y \in left : graph[x] <= graph[y]
             u == Min(e)
             v == CHOOSE x \in e : x # u
         IN  IF comp[u] = comp[v]
             THEN Kruskal(graph, left \ {e}, comp)
             ELSE graph[e] + Kruskal(graph, left \ {e},
                                     [x \in Vertices |->
                                         IF comp[x] = comp[v] THEN comp[u] ELSE comp[x]])

spanning_tree_weight(graph) == Kruskal(graph, DOMAIN graph, [x \in Vertices |-> x])

-----------------------------------------------------------------------------
(* getPath and the heuristics.                                             *)

\* getPath's while loop.  It returns the path (status "ok"), raises KeyError at
\* a vertex without an entry in cameFrom, or never returns ("diverges") when
\* the walk is caught in a cycle: more than |Vertices| steps.
RECURSIVE getPathLoop(_, _, _, _, _)
getPathLoop(cameFrom, nextVertexInPath, start, path, steps) ==
    IF nextVertexInPath = start THEN [status |-> "ok", path |-> path]
    ELSE IF nextVertexInPath \notin DOMAIN cameFrom
         THEN [status |-> "KeyError", path |-> path]
    ELSE IF steps > Cardinality(Vertices)
         THEN [status |-> "diverges", path |-> path]
    ELSE getPathLoop(cameFrom, cameFrom[nextVertexInPath], start,
                     <<names[cameFrom[nextVertexInPath]]>> \o path, steps + 1)

\* Mutant: the walk's vertices are appended, which gives the route from
\* current back to start.
RECURSIVE getPathLoop_append(_, _, _, _, _)
getPathLoop_append(cameFrom, nextVertexInPath, start, path, steps) ==
    IF nextVertexInPath = start THEN [status |-> "ok", path |-> path]
    ELSE IF nextVertexInPath \notin DOMAIN cameFrom
         THEN [status |-> "KeyError", path |-> path]
    ELSE IF steps > Cardinality(Vertices)
         THEN [status |-> "diverges", path |-> path]
    ELSE getPathLoop_append(cameFrom, cameFrom[nextVertexInPath], start,
                            Append(path, names[cameFrom[nextVertexInPath]]), steps + 1)

getPath_append(cameFrom, current, start) ==
    getPathLoop_append(cameFrom, current, start, <<names[current]>>, 0)

getPath(cameFrom, current, start) ==
    getPathLoop(cameFrom, current, start, <<names[current]>>, 0)

\* The edges of a path, as name pairs.
PathEdges(currentPath) ==
    [i \in 1 .. Len(currentPath) - 1 |-> <<currentPath[i], currentPath[i + 1]>>]

MSTHeuristic(graph, start, goal, current, openSet, cameFrom) ==
    LET currentPath == getPath(cameFrom, current, start).path
        g == delete_edges(graph, PathEdges(currentPath))
    IN  spanning_tree_weight(g)

\* get_shortest_paths (its algorithm argument, spelt "djikstra", read as
\* Dijkstra's) gives an empty edge path when goal cannot be reached from
\* current, whose weights sum to 0.
djikstraHeuristic(graph, start, goal, current, openSet, cameFrom) ==
    LET currentPath == getPath(cameFrom, current, start).path
        g == delete_edges(graph, PathEdges(currentPath))
        d == Distance(g, current, goal)
    IN  IF d = Inf THEN 0 ELSE d

\* A heuristic of h(u) <= weight(u, v) + h(v) on every edge, and h(goal) = 0.
ConsistentTables(graph, goal) ==
    {t \in [Vertices -> 0 .. MaxH] :
        /\ t[goal] = 0
        /\ \A e \in DOMAIN graph : \A u, v \in e : u # v => t[u] <= graph[e] + t[v]}

\* The heuristic callables passed to AStar: the two of the module, any function
\* of non-negative values up to MaxH ("any"), any admissible heuristic
\* ("admissible": never above the true remaining cost), and the consistent
\* functions of the scored vertex.
Heuristics(graph, end_vertex) ==
    {[kind |-> k, tab |-> <<>>] :
        k \in {"MSTHeuristic", "djikstraHeuristic", "any", "admissible"}}
    \cup (IF HasVertex(end_vertex)
          THEN {[kind |-> "consistent", tab |-> t] :
                   t \in ConsistentTables(graph, Find(end_vertex))}
          ELSE {})

\* The values the call heuristic(graph, start, goal, vertex, openSet, cameFrom)
\* can return.
HeuristicValues(heuristic, graph, start, goal, vertex, openSet, cameFrom) ==
    CASE heuristic.kind = "MSTHeuristic" ->
            {MSTHeuristic(graph, start, goal, vertex, openSet, cameFrom)}
      [] heuristic.kind = "djikstraHeuristic" ->
            {djikstraHeuristic(graph, start, goal, vertex, openSet, cameFrom)}
      [] heuristic.kind = "consistent" -> {heuristic.tab[vertex]}
      [] heuristic.kind = "admissible" ->
            LET d == Distance(graph, vertex, goal)
            IN  IF d = Inf THEN 0 .. MaxH ELSE 0 .. d
      [] OTHER -> 0 .. MaxH

\* Whether the heuristic call raises instead: the module's heuristics call
\* getPath first.
HeuristicFails(heuristic, cameFrom, vertex, start) ==
    /\ heuristic.kind \in {"MSTHeuristic", "djikstraHeuristic"}
    /\ getPath(cameFrom, vertex, start).status # "ok"

\* Mutant: g is the graph itself, not a copy: the path's edges are deleted
\* from the caller's graph.
GraphAfterHeuristic_noCopy(heuristic, graph, start, vertex, cameFrom) ==
    IF heuristic.kind \in {"MSTHeuristic", "djikstraHeuristic"}
    THEN delete_edges(graph, PathEdges(getPath(cameFrom, vertex, start).path))
    ELSE graph

\* The caller's graph after a heuristic call: the module's heuristics delete
\* edges from g = deepcopy(graph) only, and AStar itself only reads the graph.
GraphAfterHeuristic(heuristic, graph, start, vertex, cameFrom) == graph

-----------------------------------------------------------------------------
(* The state of one call AStar(graph, heuristic, start_vertex, end_vertex). *)

VARIABLES
    graph,             \* the graph argument
    heuristic,         \* the heuristic argument
    start_vertex,      \* the start name argument
    end_vertex,        \* the goal name argument
    pc,                \* "call", "loop" (the while test), "for" (the neighbour
                       \* loop), "done" (returned), "error" (raised)
    start,             \* the start vertex, 0 before it is looked up
    goal,              \* the goal vertex, 0 before it is looked up
    openSet,           \* list of vertices
    cameFrom,          \* dict vertex -> vertex
    gScore,            \* dict vertex -> score, empty before it is created
    fScore,            \* dict vertex -> score, empty before it is created
    intermediatePath,  \* list of names, in order of selection
    current,           \* the vertex being expanded, 0 before the first
    adjacent,          \* the neighbours of current still to visit
    result,            \* the returned pair <<trace, route>>, <<>> before
    hCalls,            \* per vertex, how often the heuristic scored it
    earlier,           \* the outcomes of the calls made before this one
    connections,       \* getMetro: the list of station pairs
    weights,           \* getMetro: the list of their weights
    call,              \* the arguments of the latest call of __conex
    first              \* per unordered pair, the weight of the first call

vars == <<graph, heuristic, start_vertex, end_vertex, pc, start, goal, openSet,
          cameFrom, gScore, fScore, intermediatePath, current, adjacent, result,
          hCalls, earlier, connections, weights, call, first>>

\* The lists of getMetro and what is noted about the calls of __conex.
metro == <<connections, weights, call, first>>

args == <<graph, heuristic, start_vertex, end_vertex>>

\* The arguments AStar only passes on or compares.
plainArgs == <<heuristic, start_vertex, end_vertex>>

Init ==
    /\ graph \in Graphs
    /\ start_vertex \in NameInputs
    /\ end_vertex \in NameInputs
    /\ heuristic \in Heuristics(graph, end_vertex)
    /\ pc = "call"
    /\ start = 0
    /\ goal = 0
    /\ openSet = <<>>
    /\ cameFrom = <<>>
    /\ gScore = <<>>
    /\ fScore = <<>>
    /\ intermediatePath = <<>>
    /\ current = 0
    /\ adjacent = <<>>
    /\ result = <<>>
    /\ hCalls = [v \in Vertices |-> 0]
    /\ earlier = <<>>
    /\ connections = <<>> /\ weights = <<>> /\ call = <<>> /\ first = <<>>

\* Mutant: the oldest vertex of the open set, whatever its fScore.
MinOpen_first(open, f) == open[1]

\* Mutant: of the vertices of the least fScore, the last one.
MinOpen_lastOfLeast(open, f) ==
    LET m == Min({f[open[i]] : i \in DOMAIN open})
    IN  open[CHOOSE i \in DOMAIN open :
                 /\ f[open[i]] = m
                 /\ \A j \in DOMAIN open : f[open[j]] = m => j <= i]

\* min(openSet, key=fScore.get): the first vertex of the least fScore.
MinOpen(open, f) ==
    LET m == Min({f[open[i]] : i \in DOMAIN open})
    IN  open[Min({i \in DOMAIN open : f[open[i]] = m})]

\* Mutant: <= for <.
Improves_orEqual(new_gScore, old_gScore) == new_gScore <= old_gScore

\* new_gScore < gScore[neighbor]
Improves(new_gScore, old_gScore) == new_gScore < old_gScore

\* Mutant: the neighbour is appended whether or not it is in the list.
AddToOpen_always(open, neighbor) == Append(open, neighbor)

\* Lines 166-167: if neighbor not in openSet: openSet.append(neighbor)
AddToOpen(open, neighbor) ==
    IF neighbor \in Range(open) THEN open ELSE Append(open, neighbor)

\* Mutant: the cost of current is left out.
PathCost_edgeOnly(gCurrent, w) == w

\* Line 157: gScore[current] + weight
PathCost(gCurrent, w) == gCurrent + w

\* Mutant: the short-circuit is missing.
SameEndpoints_never(s, e) == FALSE

\* start_vertex == end_vertex
SameEndpoints(s, e) == s = e

\* Mutant: the vertex is compared with the goal's name, which is never equal.
IsGoal_never(v, g) == FALSE

\* current == goal
IsGoal(v, g) == v = g

\* Mutant: gScore is a dict that outlives the call; only start's entry is set.
FreshGScore_kept(old, s) ==
    IF old = <<>> THEN [v \in Vertices |-> IF v = s THEN 0 ELSE Inf]
    ELSE [old EXCEPT ![s] = 0]

\* Lines 120-121: a new dict, inf for every vertex and 0 for start.
FreshGScore(old, s) == [v \in Vertices |-> IF v = s THEN 0 ELSE Inf]

\* Line 103: start and goal name are equal.
ShortCircuit ==
    /\ pc = "call"
    /\ SameEndpoints(start_vertex, end_vertex)
    /\ result' = <<(<<start_vertex>>), (<<start_vertex>>)>>
    /\ pc' = "done"
    /\ UNCHANGED <<metro, args, earlier, start, goal, openSet, cameFrom, gScore, fScore,
                   intermediatePath, current, adjacent, hCalls>>

\* Lines 109-110: graph.vs.find raises for a name that is no vertex.
FindRaises ==
    /\ pc = "call"
    /\ ~SameEndpoints(start_vertex, end_vertex)
    /\ ~HasVertex(start_vertex) \/ ~HasVertex(end_vertex)
    /\ pc' = "error"
    /\ start' = IF HasVertex(start_vertex) THEN Find(start_vertex) ELSE start
    /\ UNCHANGED <<metro, args, earlier, goal, openSet, cameFrom, gScore, fScore,
                   intermediatePath, current, adjacent, result, hCalls>>

\* Lines 105-125: the search state is created and start is scored.
Initialise ==
    /\ pc = "call"
    /\ ~SameEndpoints(start_vertex, end_vertex)
    /\ HasVertex(start_vertex) /\ HasVertex(end_vertex)
    /\ LET s == Find(start_vertex)
           g == Find(end_vertex)
       IN  /\ start' = s
           /\ goal' = g
           /\ openSet' = <<s>>
           /\ cameFrom' = <<>>
           /\ gScore' = FreshGScore(gScore, s)
           /\ hCalls' = [hCalls EXCEPT ![s] = @ + 1]
           /\ \E h \in HeuristicValues(heuristic, graph, s, g, s, <<s>>, <<>>) :
                 fScore' = [v \in Vertices |-> IF v = s THEN h ELSE Inf]
           /\ graph' = GraphAfterHeuristic(heuristic, graph, s, s, <<>>)
    /\ intermediatePath' = <<>>
    /\ pc' = "loop"
    /\ UNCHANGED <<metro, plainArgs, earlier, current, adjacent, result>>

\* Lines 128-140: the goal is selected; the route is rebuilt and returned.
SelectGoal ==
    /\ pc = "loop"
    /\ openSet # <<>>
    /\ IsGoal(MinOpen(openSet, fScore), goal)
    /\ current' = MinOpen(openSet, fScore)
    /\ intermediatePath' = Append(intermediatePath, names[current'])
    /\ LET finalRoute == getPath(cameFrom, current', start)
       IN  IF finalRoute.status = "ok"
           THEN /\ result' = <<intermediatePath', finalRoute.path>>
                /\ pc' = "done"
           ELSE /\ result' = result
                /\ pc' = IF finalRoute.status = "KeyError" THEN "error" ELSE "diverged"
    /\ UNCHANGED <<metro, args, earlier, start, goal, openSet, cameFrom, gScore, fScore, adjacent,
                   hCalls>>

\* Lines 128-146: another vertex is selected, removed from the open set, and
\* its neighbours are fetched.
SelectExpand ==
    /\ pc = "loop"
    /\ openSet # <<>>
    /\ ~IsGoal(MinOpen(openSet, fScore), goal)
    /\ current' = MinOpen(openSet, fScore)
    /\ intermediatePath' = Append(intermediatePath, names[current'])
    /\ openSet' = Remove(openSet, current')
    /\ adjacent' = neighbors(graph, current')
    /\ pc' = IF adjacent' = <<>> THEN "loop" ELSE "for"
    /\ UNCHANGED <<metro, args, earlier, start, goal, cameFrom, gScore, fScore, result, hCalls>>

\* Lines 148-167: one pass of the for loop, on the next neighbour.
Relax ==
    /\ pc = "for"
    /\ LET neighbor == Head(adjacent)
           new_gScore == PathCost(gScore[current], weight(graph, current, neighbor))
           cf == (neighbor :> current) @@ cameFrom
       IN  IF Improves(new_gScore, gScore[neighbor])
           THEN /\ cameFrom' = cf
                /\ gScore' = [gScore EXCEPT ![neighbor] = new_gScore]
                /\ hCalls' = [hCalls EXCEPT ![neighbor] = @ + 1]
                /\ IF HeuristicFails(heuristic, cf, neighbor, start)
                   THEN /\ pc' = IF getPath(cf, neighbor, start).status = "KeyError"
                                 THEN "error" ELSE "diverged"
                        /\ UNCHANGED <<graph, fScore, openSet, adjacent>>
                   ELSE /\ \E h \in HeuristicValues(heuristic, graph, start, goal,
                                                   neighbor, openSet, cf) :
                              fScore' = [fScore EXCEPT ![neighbor] = new_gScore + h]
                        /\ graph' = GraphAfterHeuristic(heuristic, graph, start,
                                                        neighbor, cf)
                        /\ openSet' = AddToOpen(openSet, neighbor)
                        /\ adjacent' = Tail(adjacent)
                        /\ pc' = IF adjacent' = <<>> THEN "loop" ELSE "for"
           ELSE /\ adjacent' = Tail(adjacent)
                /\ pc' = IF adjacent' = <<>> THEN "loop" ELSE "for"
                /\ UNCHANGED <<graph, cameFrom, gScore, fScore, openSet, hCalls>>
    /\ UNCHANGED <<metro, plainArgs, earlier, start, goal, intermediatePath, current, result>>

\* Lines 128, 169: the open set is empty; two empty lists are returned.
NoPath ==
    /\ pc = "loop"
    /\ openSet = <<>>
    /\ result' = <<(<<>>), (<<>>)>>
    /\ pc' = "done"
    /\ UNCHANGED <<metro, args, earlier, start, goal, openSet, cameFrom, gScore, fScore,
                   intermediatePath, current, adjacent, hCalls>>

Next ==
    \/ ShortCircuit
    \/ FindRaises
    \/ Initialise
    \/ SelectGoal
    \/ SelectExpand
    \/ Relax
    \/ NoPath

Spec == Init /\ [][Next]_vars

-----------------------------------------------------------------------------
(* Two calls of AStar with the same arguments, one after the other.        *)

\* The heuristics that are functions of their arguments.
IsFunction(h) == h.kind \in {"MSTHeuristic", "djikstraHeuristic", "consistent"}

\* The caller notes the outcome and calls AStar again with the same
\* arguments; the objects of the first call are left as they are.
CallAgain ==
    /\ pc \in {"done", "error"}
    /\ earlier = <<>>
    /\ earlier' = <<[pc |-> pc, result |-> result]>>
    /\ pc' = "call"
    /\ result' = <<>>
    /\ UNCHANGED <<metro, args, start, goal, openSet, cameFrom, gScore, fScore,
                   intermediatePath, current, adjacent, hCalls>>

TwoCallInit == Init /\ IsFunction(heuristic)

TwoCallNext == Next \/ CallAgain

TwoCallSpec == TwoCallInit /\ [][TwoCallNext]_vars

-----------------------------------------------------------------------------
(* LyonMetro.py: the calls of __conex that getMetro makes on its two lists. *)

Stations == {"A", "B"}

\* Line 64: a weight of 0 is no connection, and is not passed on.
StationWeights == {1, 2}

\* Mutant: only the pair in the order given is looked for.
Present_sameOrder(s1, s2, conns) == <<s1, s2>> \in Range(conns)

\* Line 19: (s1,s2) in connections or (s2,s1) in connections
Present(s1, s2, conns) == <<s1, s2>> \in Range(conns) \/ <<s2, s1>> \in Range(conns)

ConexInit ==
    /\ connections = <<>> /\ weights = <<>> /\ call = <<>> /\ first = <<>>
    /\ pc = "getMetro"
    /\ graph = <<>>
    /\ heuristic = [kind |-> "any", tab |-> <<>>]
    /\ start_vertex = "A" /\ end_vertex = "A"
    /\ start = 0 /\ goal = 0 /\ current = 0
    /\ openSet = <<>> /\ cameFrom = <<>> /\ gScore = <<>> /\ fScore = <<>>
    /\ intermediatePath = <<>> /\ adjacent = <<>> /\ result = <<>>
    /\ hCalls = [v \in Vertices |-> 0]
    /\ earlier = <<>>

\* Lines 18-22: one call __conex(s1, s2, weight, connections, weights).
conex ==
    /\ pc = "getMetro"
    /\ \E s1 \in Stations, s2 \in Stations, w \in StationWeights :
          /\ call' = <<s1, s2, w>>
          /\ first' = IF {s1, s2} \in DOMAIN first THEN first
                       ELSE ({s1, s2} :> w) @@ first
          /\ IF ~Present(s1, s2, connections)
             THEN /\ connections' = Append(connections, <<s1, s2>>)
                  /\ weights' = Append(weights, w)
             ELSE UNCHANGED <<connections, weights>>
    /\ UNCHANGED <<args, earlier, pc, start, goal, openSet, cameFrom, gScore, fScore,
                   intermediatePath, current, adjacent, result, hCalls>>

ConexNext == conex

ConexSpec == ConexInit /\ [][ConexNext]_vars

-----------------------------------------------------------------------------
(* One call getPath(cameFrom, current, start) on any predecessor map.      *)

\* Every dict from vertices to vertices.
PredecessorMaps == UNION {[D -> Vertices] : D \in SUBSET Vertices}

GetPathInit ==
    /\ cameFrom \in PredecessorMaps
    /\ current \in Vertices
    /\ start \in Vertices
    /\ pc = "getPath"
    /\ result = <<>>
    /\ graph = <<>>
    /\ heuristic = [kind |-> "any", tab |-> <<>>]
    /\ start_vertex = names[start]
    /\ end_vertex = names[current]
    /\ goal = current
    /\ openSet = <<>>
    /\ gScore = <<>>
    /\ fScore = <<>>
    /\ intermediatePath = <<>>
    /\ adjacent = <<>>
    /\ hCalls = [v \in Vertices |-> 0]
    /\ earlier = <<>>
    /\ connections = <<>> /\ weights = <<>> /\ call = <<>> /\ first = <<>>

getPathFrame ==
    UNCHANGED <<metro, args, earlier, start, goal, openSet, cameFrom, gScore, fScore,
                intermediatePath, current, adjacent, hCalls>>

\* Line 26: the walk reached start; path is returned.
GetPathReturns ==
    /\ pc = "getPath"
    /\ getPath(cameFrom, current, start).status = "ok"
    /\ result' = getPath(cameFrom, current, start).path
    /\ pc' = "done"
    /\ getPathFrame

\* Lines 21, 24: cameFrom[nextVertexInPath] raises KeyError.
GetPathRaises ==
    /\ pc = "getPath"
    /\ getPath(cameFrom, current, start).status = "KeyError"
    /\ pc' = "error"
    /\ result' = result
    /\ getPathFrame

\* Line 19: the walk is in a cycle without start; the while loop never ends.
GetPathLoopsForever ==
    /\ pc = "getPath"
    /\ getPath(cameFrom, current, start).status = "diverges"
    /\ pc' = "diverged"
    /\ result' = result
    /\ getPathFrame

GetPathNext == GetPathReturns \/ GetPathRaises \/ GetPathLoopsForever

GetPathSpec == GetPathInit /\ [][GetPathNext]_vars

-----------------------------------------------------------------------------
(* What the claims speak of.                                               *)

\* The call returned a <<trace, route>> pair after a search was set up.
Returned == pc = "done" /\ start # 0

trace == result[1]

route == result[2]

\* The total edge weight over consecutive pairs of a route of names; a pair
\* that no edge joins counts Inf.
RECURSIVE RouteWeight(_, _)
RouteWeight(g, r) ==
    IF Len(r) < 2 THEN 0
    ELSE (IF {Find(r[1]), Find(r[2])} \in DOMAIN g
          THEN g[{Find(r[1]), Find(r[2])}] ELSE Inf) + RouteWeight(g, Tail(r))

\* The heuristic never returns more than the true remaining cost.
Admissible == heuristic.kind \in {"admissible", "consistent"}

-----------------------------------------------------------------------------
(* Claims.                                                                 *)

\* C1: with an admissible heuristic, the route AStar returns has the weight of
\* a shortest path from start to goal; on the 4-cycle AB = 1, BC = 2, CD = 1,
\* DA = 5 the route from A to C weighs 3.
C1_OptimalRoute ==
    (Returned /\ Admissible /\ route # <<>>) =>
        /\ RouteWeight(graph, route) = Distance(graph, start, goal)
        /\ (graph = Cycle4 /\ start_vertex = "A" /\ end_vertex = "C") =>
               RouteWeight(graph, route) = 3

C1_Witness ==
    /\ Returned /\ heuristic.kind = "admissible"
    /\ graph = Cycle4 /\ start_vertex = "A" /\ end_vertex = "C"
    /\ route = <<"A", "B", "C">>
    /\ trace = <<"A", "B", "C">>
    /\ fScore[start] = 3

\* C2: for two different vertices of the graph, AStar returns two empty lists
\* exactly when no path joins start and goal, and two non-empty lists when one
\* does, whatever the heuristic returns.
C2_EmptyIffNoPath ==
    Returned =>
        /\ (result = <<(<<>>), (<<>>)>>) <=> (Distance(graph, start, goal) = Inf)
        /\ Distance(graph, start, goal) < Inf => (trace # <<>> /\ route # <<>>)
        /\ Distance(graph, start, goal) = Inf => (trace = <<>> /\ route = <<>>)

C2_Witness ==
    /\ Returned /\ result = <<(<<>>), (<<>>)>>
    /\ neighbors(graph, goal) = <<>>
    /\ Len(intermediatePath) = 3

\* C3: AStar(g, h, x, x) returns ([x], [x]) for every heuristic, scores no
\* vertex and creates no search state.
C3_SameEndpoints ==
    (pc = "done" /\ start_vertex = end_vertex) =>
        /\ result = <<(<<start_vertex>>), (<<start_vertex>>)>>
        /\ \A v \in Vertices : hCalls[v] = 0
        /\ openSet = <<>> /\ cameFrom = <<>> /\ gScore = <<>> /\ fScore = <<>>
        /\ intermediatePath = <<>> /\ start = 0 /\ goal = 0

C3_Witness ==
    /\ pc = "done" /\ start_vertex = "B" /\ end_vertex = "B"
    /\ heuristic.kind = "MSTHeuristic"
    /\ result = <<(<<"B">>), (<<"B">>)>>

\* C4: a non-empty route goes from start to goal: it begins with start, ends
\* with goal, joins consecutive vertices by edges of the graph and repeats no
\* vertex, for every heuristic.
C4_RouteIsPath ==
    (Returned /\ route # <<>>) =>
        /\ route[1] = start_vertex
        /\ route[Len(route)] = end_vertex
        /\ \A i \in 1 .. Len(route) - 1 :
               HasVertex(route[i]) /\ HasVertex(route[i + 1])
               /\ {Find(route[i]), Find(route[i + 1])} \in DOMAIN graph
        /\ \A i, j \in DOMAIN route : route[i] = route[j] => i = j

C4_Witness ==
    /\ Returned /\ Len(route) = 3
    /\ heuristic.kind = "any"
    /\ RouteWeight(graph, route) > Distance(graph, start, goal)

\* C5: on success the goal is the last element of the trace and occurs in it
\* once, the trace begins with start, and the search goes on only while the
\* goal has not been selected.
C5_GoalEndsTrace ==
    /\ (Returned /\ trace # <<>>) =>
           /\ trace[Len(trace)] = end_vertex
           /\ \A i \in DOMAIN trace : trace[i] = end_vertex => i = Len(trace)
           /\ trace[1] = start_vertex
           /\ trace = intermediatePath
    /\ pc \in {"loop", "for"} => names[goal] \notin Range(intermediatePath)

C5_Witness ==
    /\ Returned /\ Len(trace) > 4
    /\ trace[Len(trace)] = end_vertex

\* A measure of the work the main loop has left: the gScores can only fall,
\* then the open set and the neighbours still to visit can only shrink.
RECURSIVE SumOver(_, _)
SumOver(f, S) ==
    IF S = {} THEN 0
    ELSE LET x == CHOOSE y \in S : TRUE IN f[x] + SumOver(f, S \ {x})

Rank ==
    100 * SumOver(gScore, DOMAIN gScore) + 10 * Len(openSet) + 2 * Len(adjacent)
        + (IF pc \in {"loop", "for"} THEN 1 ELSE 0)

\* A step of the running loop lowers Rank, and not below 0.
RankFalls == pc \in {"loop", "for"} => (Rank' < Rank /\ Rank' >= 0)

\* C6: the main loop terminates, also when expanded vertices are put back
\* into the open set: every step of the running loop lowers Rank, which is
\* never negative, and the for loop is only entered with a neighbour to visit
\* (the while test can always be taken).
C6_Terminates == [](pc = "for" => adjacent # <<>>) /\ [][RankFalls]_vars

\* A search that returned after some vertex was expanded twice.
C6_Witness ==
    /\ Returned
    /\ \E i, j \in DOMAIN intermediatePath :
           i < j /\ intermediatePath[i] = intermediatePath[j]

\* C7: when start or goal names no vertex of the graph, the call raises before
\* any search state exists or any vertex is scored, and returns nothing.
C7_VertexNotFound ==
    (pc # "call" /\ (~HasVertex(start_vertex) \/ ~HasVertex(end_vertex))) =>
        /\ pc = "error"
        /\ result = <<>>
        /\ \A v \in Vertices : hCalls[v] = 0
        /\ openSet = <<>> /\ cameFrom = <<>> /\ gScore = <<>> /\ fScore = <<>>

\* C8, as claimed: at a successful return the weight of the route rebuilt from
\* cameFrom is gScore[goal].
C8_RouteWeightIsGScore ==
    (Returned /\ route # <<>>) => RouteWeight(graph, route) = gScore[goal]

\* C8, amended: the weight of the returned route is at most gScore[goal], and
\* is gScore[goal] when the heuristic is admissible.
C8_RouteWeightAtMostGScore ==
    (Returned /\ route # <<>>) =>
        /\ RouteWeight(graph, route) <= gScore[goal]
        /\ Admissible => RouteWeight(graph, route) = gScore[goal]

C8_Witness ==
    /\ Returned /\ route # <<>>
    /\ RouteWeight(graph, route) < gScore[goal]

\* The step selects a vertex after another was selected before.
SelectsAgain ==
    intermediatePath # <<>> /\ intermediatePath' # intermediatePath

\* C9, as claimed: the fScore of each selected vertex, when it is selected, is
\* at least that of the vertex selected before it, when that one was selected
\* (fScore[current] is not written while current is expanded).
C9_SelectedFScoreMonotone ==
    [][SelectsAgain => fScore[current'] >= fScore[current]]_vars

\* C9, amended: so it is when the heuristic is consistent.
C9_MonotoneIfConsistent ==
    [][(SelectsAgain /\ heuristic.kind = "consistent") =>
          fScore[current'] >= fScore[current]]_vars

C9_Witness ==
    /\ heuristic.kind = "consistent"
    /\ Len(intermediatePath) >= 3
    /\ pc = "for"
    /\ fScore[current] > fScore[start]
    /\ \E v \in Vertices : heuristic.tab[v] > 0

\* C10: with MSTHeuristic and with djikstraHeuristic AStar returns routes of
\* the same weight, the weight of a shortest path.
C10_BothHeuristicsOptimal ==
    (Returned /\ route # <<>>
        /\ heuristic.kind \in {"MSTHeuristic", "djikstraHeuristic"}) =>
        RouteWeight(graph, route) = Distance(graph, start, goal)

\* The search state exists: lines 105-125 have run.
Searching == gScore # <<>>

\* The value the heuristic returned when v was last scored: gScore[v] and
\* fScore[v] are written together, fScore[v] = gScore[v] + heuristic(v).
LastEstimate(v) == fScore[v] - gScore[v]

\* C11: MSTHeuristic is admissible: each value it returns for a vertex v is at
\* most the cost of a shortest path from v to goal, and is 0 for the goal.
C11_MSTAdmissible ==
    (Searching /\ heuristic.kind = "MSTHeuristic") =>
        \A v \in Vertices :
            gScore[v] < Inf =>
                /\ LastEstimate(v) <= Distance(graph, v, goal)
                /\ v = goal => LastEstimate(v) = 0

\* C12: djikstraHeuristic is admissible: each value it returns for a vertex v
\* is at most the cost of a shortest path from v to goal in the whole graph.
C12_DjikstraAdmissible ==
    (Searching /\ heuristic.kind = "djikstraHeuristic") =>
        \A v \in Vertices :
            gScore[v] < Inf => LastEstimate(v) <= Distance(graph, v, goal)

C14_GetPathReturnsOrRaises ==
    /\ pc # "diverged"
    /\ pc = "done" =>
           (result[1] = names[start] /\ result[Len(result)] = names[current])

SelectsFirstOfLeast ==
    (intermediatePath' # intermediatePath) =>
        \E i \in DOMAIN openSet :
            /\ openSet[i] = current'
            /\ \A j \in DOMAIN openSet :
                   /\ fScore[openSet[j]] >= fScore[current']
                   /\ j < i => fScore[openSet[j]] > fScore[current']

\* The positions of the open set are those of insertion: removing the
\* selected vertex keeps the order of the others, a neighbour that is absent
\* goes to the end, one that is present stays where it is.
KeepsInsertionOrder ==
    /\ (pc = "loop" /\ pc' \in {"loop", "for"}) =>
           openSet' = SelectSeq(openSet, LAMBDA v : v # current')
    /\ (pc = "for" /\ openSet' # openSet) =>
           /\ Head(adjacent) \notin Range(openSet)
           /\ openSet' = Append(openSet, Head(adjacent))
    /\ (pc = "for" /\ Head(adjacent) \in Range(openSet)) => openSet' = openSet

\* C16: at every iteration current is a member of the open set of the least
\* fScore, and of several such members the one earliest in insertion order;
\* a re-inserted vertex is at the place of its re-insertion, a rescored one
\* keeps its place.
C16_SelectsEarliestMinimum == [][SelectsFirstOfLeast /\ KeepsInsertionOrder]_vars

\* The goal was selected out of a tie with a later vertex of the open set,
\* one that had been expanded and inserted again.
C16_Witness ==
    /\ pc = "done" /\ result # <<>>
    /\ \E i, j \in DOMAIN openSet :
           /\ i < j
           /\ openSet[i] = current
           /\ fScore[openSet[j]] = fScore[current]
           /\ names[openSet[j]] \in Range(intermediatePath)

\* What one pass of the for loop does to the neighbour it looks at.
RelaxEffect ==
    pc = "for" =>
        LET n == Head(adjacent)
            new == gScore[current] + weight(graph, current, n)
        IN  IF new < gScore[n]
            THEN /\ n \in DOMAIN cameFrom' /\ cameFrom'[n] = current
                 /\ gScore'[n] = new
                 /\ fScore'[n] - new \in
                        HeuristicValues(heuristic, graph, start, goal, n,
                                        openSet, cameFrom')
                 /\ n \in Range(openSet')
            ELSE /\ n \in DOMAIN cameFrom' <=> n \in DOMAIN cameFrom
                 /\ n \in DOMAIN cameFrom => cameFrom'[n] = cameFrom[n]
                 /\ gScore'[n] = gScore[n]
                 /\ fScore'[n] = fScore[n]
                 /\ n \in Range(openSet') <=> n \in Range(openSet)

\* C17: when current is expanded, a neighbour n with gScore[current] +
\* weight(current, n) < gScore[n] gets cameFrom[n] = current, gScore[n] = the
\* new cost, fScore[n] = the new cost plus the heuristic evaluated with the
\* new cameFrom, and is in the open set afterwards, also when it had been
\* expanded before; any other neighbour keeps all four.
C17_RelaxUpdatesAllOrNothing == [][RelaxEffect]_vars

\* A vertex that had been expanded was improved from current and is in the
\* open set again.
C17_Witness ==
    /\ pc \in {"for", "loop"} /\ Searching
    /\ \E v \in Range(openSet) :
           /\ names[v] \in Range(intermediatePath)
           /\ v \in DOMAIN cameFrom /\ cameFrom[v] = current
           /\ fScore[v] < Inf

\* start has been scored once, costs 0 and has no predecessor.
StartScoredOnce ==
    Searching => (hCalls[start] = 1 /\ gScore[start] = 0 /\ start \notin DOMAIN cameFrom)

\* The step that scores start is the one before the loop, with an empty
\* cameFrom; no later step changes fScore[start].
StartScoredFirst ==
    /\ (start' # 0 /\ hCalls'[start'] # hCalls[start']) =>
           (pc = "call" /\ pc' = "loop" /\ cameFrom' = <<>> /\ intermediatePath' = <<>>)
    /\ Searching => fScore'[start] = fScore[start]

\* C18: with non-negative weights the heuristic is evaluated for start
\* exactly once, before the first iteration and with an empty cameFrom;
\* start is never rescored, gScore[start] stays 0 and fScore[start] keeps
\* its first value.
C18_StartScoredOnce == []StartScoredOnce /\ [][StartScoredFirst]_vars

\* A vertex of cost 0 with an edge of weight 0 to start has been expanded:
\* the new cost of start was 0, which is not less than 0.
C18_Witness ==
    /\ Searching /\ pc = "loop" /\ current \in Vertices /\ current # start
    /\ gScore[current] = 0
    /\ {current, start} \in DOMAIN graph /\ graph[{current, start}] = 0
    /\ names[current] = intermediatePath[Len(intermediatePath)]
    /\ hCalls[start] = 1

\* The vertex k predecessors before v, or 0 where the chain ends earlier.
RECURSIVE Follow(_, _, _)
Follow(cf, v, k) ==
    IF k = 0 THEN v
    ELSE IF v \in DOMAIN cf THEN Follow(cf, cf[v], k - 1)
    ELSE 0

\* C19: with non-negative weights, in every state of a search cameFrom has
\* no entry for start and none for a vertex whose gScore is infinite, the
\* predecessors of every vertex that has an entry lead to start within as
\* many steps as there are vertices, and so getPath returns for each of
\* them and no call of the engine or of a heuristic has failed.
C19_PredecessorsLeadToStart ==
    Searching =>
        /\ start \notin DOMAIN cameFrom
        /\ \A v \in DOMAIN cameFrom :
               /\ gScore[v] < Inf
               /\ \E k \in 1..(Cardinality(Vertices) - 1) : Follow(cameFrom, v, k) = start
               /\ getPath(cameFrom, v, start).status = "ok"
        /\ pc \notin {"error", "diverged"}

\* A heuristic of the module has rebuilt a path of four vertices.
C19_Witness ==
    /\ Searching /\ heuristic.kind \in {"MSTHeuristic", "djikstraHeuristic"}
    /\ \E v \in DOMAIN cameFrom :
           /\ Follow(cameFrom, v, 3) = start
           /\ Len(getPath(cameFrom, v, start).path) = 4

\* C20: in every state of a search the open set holds no vertex twice, each
\* of its vertices is start or has a finite gScore and an entry in cameFrom,
\* and while current is expanded no copy of it is in the open set.
C20_OpenSetIsSet ==
    Searching =>
        /\ \A i, j \in DOMAIN openSet : openSet[i] = openSet[j] => i = j
        /\ \A v \in Range(openSet) :
               v = start \/ (gScore[v] < Inf /\ v \in DOMAIN cameFrom)
        /\ pc = "for" => current \notin Range(openSet)

\* current has improved a vertex that was in the open set already, among
\* others, and had never been expanded.
C20_Witness ==
    /\ Searching /\ pc \in {"for", "loop"} /\ Len(openSet) >= 2
    /\ \E v \in Range(openSet) :
           /\ v \in DOMAIN cameFrom /\ cameFrom[v] = current
           /\ hCalls[v] >= 2
           /\ names[v] \notin Range(intermediatePath)

\* Every entry of cameFrom is an edge, and the cost of its vertex is at least
\* the cost of the predecessor plus the weight of that edge.
CostCoversPredecessor ==
    Searching =>
        \A n \in DOMAIN cameFrom :
            /\ {cameFrom[n], n} \in DOMAIN graph
            /\ gScore[n] >= gScore[cameFrom[n]] + graph[{cameFrom[n], n}]

\* No cost increases, and a step that writes an entry of cameFrom leaves the
\* cost of its vertex equal to the cost of the predecessor plus the weight.
CostFallsAndIsExactWhenWritten ==
    Searching =>
        /\ \A v \in Vertices : gScore'[v] <= gScore[v]
        /\ \A n \in DOMAIN cameFrom' :
               (n \notin DOMAIN cameFrom \/ cameFrom'[n] # cameFrom[n]
                    \/ gScore'[n] # gScore[n]) =>
                   gScore'[n] = gScore'[cameFrom'[n]] + graph[{cameFrom'[n], n}]

\* C21: with non-negative weights no vertex's gScore increases from one step
\* to the next, and every vertex n with a predecessor p = cameFrom[n] has
\* gScore[n] >= gScore[p] + weight(p, n), with equality at the step that
\* writes the entry.
C21_GScoreFallsAndCoversPredecessor == []CostCoversPredecessor /\ [][CostFallsAndIsExactWhenWritten]_vars

\* A predecessor was improved after the entry was written: the inequality
\* is strict.
C21_Witness ==
    /\ Searching
    /\ \E n \in DOMAIN cameFrom :
           /\ {cameFrom[n], n} \in DOMAIN graph
           /\ gScore[n] > gScore[cameFrom[n]] + graph[{cameFrom[n], n}]

\* The two lists as they are after any number of calls.
OnePerPair ==
    /\ \A i, j \in DOMAIN connections :
           i # j => /\ connections[i] # connections[j]
                    /\ connections[i] # <<connections[j][2], connections[j][1]>>
    /\ Len(weights) = Len(connections)
    /\ \A i \in DOMAIN connections :
           /\ {connections[i][1], connections[i][2]} \in DOMAIN first
           /\ i \in DOMAIN weights
           /\ weights[i] = first[{connections[i][1], connections[i][2]}]

\* A call for a pair that is in the list, in either order, changes nothing.
SecondCallIgnored ==
    (call' # <<>> /\ \E i \in DOMAIN connections :
            {connections[i][1], connections[i][2]} = {call'[1], call'[2]}) =>
        (connections' = connections /\ weights' = weights)

\* C22: after any sequence of __conex calls from empty lists, connections
\* has at most one entry per unordered pair of stations, weights is as long
\* as connections, the weight of a pair is that of the first call that named
\* it, and a call for a pair already there leaves both lists unchanged.
C22_OneEntryPerPair == []OnePerPair /\ [][SecondCallIgnored]_vars

\* The latest call named, in the other order and with another weight, a
\* pair that was in the list; two more pairs are in the list.
C22_Witness ==
    /\ Len(connections) = 3 /\ call # <<>>
    /\ \E i \in DOMAIN connections :
           /\ connections[i] = <<call[2], call[1]>>
           /\ call[1] # call[2]
           /\ weights[i] # call[3]

====
